---- MODULE Spec2Model ----
(***************************************************************************)
(* The directed graph with depth-first path search and Ford-Fulkerson      *)
(* maximum flow of graph/src/lib.rs (DirectedGraph<T>), as a state machine:*)
(* a caller builds a graph with add_edge / remove_edge and then calls dfs  *)
(* or max_flow, whose loops run one iteration per step.  The order in      *)
(* which a HashSet iterates is unspecified: each search takes any order.   *)
(*                                                                         *)
(* Spec          every graph of a few edges on a few vertices              *)
(* SpecScenario  the graphs of the tests and graphs with opposite edges    *)
(* SpecMatching  the layered graphs of day16 and day21, whose functions    *)
(*               read a matching off the flow max_flow returns             *)
(* SpecIndexed   the usize-indexed graph of day16/src/graph.rs             *)
(*                                                                         *)
(* Three more programs of the repository that keep a state over a loop    *)
(* have a specification each, over variables of their own:                 *)
(*                                                                         *)
(* SpecXmas      XmasProcessor of day9: push over a sliding window         *)
(* SpecFerry     FerryCellularAutomaton of day11: advance_to_stable_state  *)
(* SpecHandheld  execute_program_with_self_healing of day8                 *)
(***************************************************************************)
EXTENDS Integers, Sequences, FiniteSets, TLC

\* Number of vertices the caller of the exhaustive specification creates.
NVertices == 3

\* Largest number of edges the caller of the exhaustive specification builds.
MaxEdges == 3

\* Largest number of edges a scenario graph has lost to remove_edge.
MaxRemoved == 2

\* Largest number of iterations of the while loop of max_flow that is
\* counted; a loop that goes on is counted no further.
MaxAugmentations == 4

\* Number of Rc nodes the tests create: (0..6).map(Rc::new).
TestNodes == 6

\* Largest preamble_len an XmasProcessor is made with.
MaxPreamble == 3

\* Largest value pushed to an XmasProcessor.
MaxValue == 2

\* Largest number of values pushed to an XmasProcessor.
MaxPushes == 5

\* Largest numbers of rows and of columns of the grids that are parsed, the
\* grids of FerryGrids set aside.
MaxRows == 2
MaxColumns == 3

\* Largest number of instructions of a handheld program.
MaxProgramLen == 3

\* Largest offset, in either direction, of a nop of a handheld program.
MaxOffset == 2

\* Largest accumulator with which a run that has replaced no instruction is
\* followed further: such a run can go on for ever.
MaxAccumulator == 4

VARIABLES
    nodes,       \* the caller's vertices (Vec<Rc<u32>>)
    adjancency,  \* self.adjancency: HashMap<Rc<T>, HashSet<Rc<T>>>
    pc,          \* "idle", "dfs", "mf_loop", "mf_body", "mf_filter", "returned",
                 \* "built", "extracted", "panicked"
    op,          \* the call that is running: "none", "dfs", "max_flow"
    start,       \* dfs: start; max_flow: start
    target,      \* dfs: target; max_flow: end (passed to dfs as target)
    visited,     \* dfs: visited
    stack,       \* dfs: stack, a sequence of <<vertex, next_neighbour>>
    order,       \* dfs: the iteration order edges.iter() has shown, per vertex
    abandoned,   \* dfs: vertices whose frame was popped without a push
    path,        \* the Option<Path> dfs returned
    window,      \* max_flow: number of windows of path the for loop has used
    graph,       \* max_flow: the residual graph (self.clone())
    flow,        \* max_flow: the flow graph the augmentation loop builds
    result,      \* max_flow: the returned graph, flow after the final filter
    caller,      \* the function that builds the layered graph, or "none"
    matches,     \* the Option<Vec> that caller returned
    augmentations, \* max_flow: iterations of the while loop that have ended
    pushes,      \* dfs: how often each vertex was pushed as a new frame
    preamble_len,  \* XmasProcessor: preamble_len
    window_queue,  \* XmasProcessor: window_queue, front first
    window_tree,   \* XmasProcessor: window_tree
    values,        \* day9: the values pushed so far, in order
    push_result,   \* day9: the Option of what the last push returned
    state,         \* FerryCellularAutomaton: state, indexed from 0
    state_buffer,  \* FerryCellularAutomaton: state_buffer
    n_columns,     \* FerryCellularAutomaton: n_columns
    n_rows,        \* FerryCellularAutomaton: n_rows
    program,              \* day8: program, a sequence of OpCode
    accumulator,          \* day8: state.accumulator
    instruction_pointer,  \* day8: state.instruction_pointer
    halting_nodes,        \* day8: halting_nodes
    queue,                \* day8: determine_halting_nodes: queue
    fixed,                \* day8: fixed
    replacements          \* day8: number of flipped instructions executed

\* The variables of the graph and its callers
graphVars == <<nodes, adjancency, pc, op, start, target, visited, stack,
               order, abandoned, path, window, graph, flow, result, caller,
               matches, augmentations, pushes>>

\* The variables of the graph and its callers but pc and op, which every
\* program uses for its position
graphData == <<nodes, adjancency, start, target, visited, stack, order,
               abandoned, path, window, graph, flow, result, caller, matches,
               augmentations, pushes>>

\* The variables of day9
xmas == <<preamble_len, window_queue, window_tree, values, push_result>>

\* The variables of day11
ferry == <<state, state_buffer, n_columns, n_rows>>

\* The variables of day8
handheld == <<program, accumulator, instruction_pointer, halting_nodes, queue,
              fixed, replacements>>

\* The variables of the programs that do not use the graph
days == <<xmas, ferry, handheld>>

vars == <<graphVars, days>>

----------------------------------------------------------------------------
\* Option<T>

None == <<"None">>
Some(x) == <<"Some", x>>
IsSome(o) == o[1] = "Some"
Unwrap(o) == o[2]

----------------------------------------------------------------------------
\* DirectedGraph<T>: a map from vertex to its set of successors

New == [v \in {} |-> {}]

\* self.adjancency.get(v), the missing entry read as no successors
Successors(g, v) == IF v \in DOMAIN g THEN g[v] ELSE {}

HasEdge(g, u, v) == u \in DOMAIN g /\ v \in g[u]

Edges(g) == UNION {{<<u, v>> : v \in g[u]} : u \in DOMAIN g}

\* Graphs compared by their edges, whatever entries they have.
Eq_ByEdges(a, b) == Edges(a) = Edges(b)

\* #[derive(PartialEq)] on the struct: == of the two HashMaps, which holds
\* when they have the same keys and every key has equal sets in both
Eq(a, b) ==
    /\ DOMAIN a = DOMAIN b
    /\ \A v \in DOMAIN a : a[v] = b[v]

\* An entry made for the target too.
add_edge_TargetEntry(g, from, to) ==
    LET h == IF to \in DOMAIN g THEN g ELSE g @@ (to :> {})
    IN  IF from \in DOMAIN h
        THEN [h EXCEPT ![from] = @ \cup {to}]
        ELSE h @@ (from :> {to})

\* entry(from).or_insert(HashSet::new()), then insert(to)
add_edge(g, from, to) ==
    IF from \in DOMAIN g
    THEN [g EXCEPT ![from] = @ \cup {to}]
    ELSE g @@ (from :> {to})

\* The edge left in place: edges.remove(to) left out.
remove_edge_Kept(g, from, to) == g

\* An empty entry made for a source that has none.
remove_edge_EntryCreated(g, from, to) ==
    IF from \in DOMAIN g THEN [g EXCEPT ![from] = @ \ {to}]
    ELSE g @@ (from :> {})

\* if let Some(edges) = self.adjancency.get_mut(from) { edges.remove(to); }
remove_edge(g, from, to) ==
    IF from \in DOMAIN g THEN [g EXCEPT ![from] = @ \ {to}] ELSE g

\* A graph as the tests build it: one add_edge per pair, in sequence.
RECURSIVE FromEdges(_)
FromEdges(es) ==
    IF es = <<>> THEN New
    ELSE add_edge(FromEdges(SubSeq(es, 1, Len(es) - 1)),
                  es[Len(es)][1], es[Len(es)][2])

----------------------------------------------------------------------------
\* dfs

\* The orders in which a HashSet may iterate its elements.
RECURSIVE IterOrders(_)
IterOrders(S) ==
    IF S = {} THEN {<<>>}
    ELSE UNION {{<<x>> \o rest : rest \in IterOrders(S \ {x})} : x \in S}

\* .next() taken before the filter: only the entry at next_neighbour is
\* looked at, and a visited one ends the scan.
NextVertex_NextBeforeFilter(edges, next_neighbour, vis) ==
    IF next_neighbour < Len(edges) /\ edges[next_neighbour + 1] \notin vis
    THEN Some(<<next_neighbour, edges[next_neighbour + 1]>>)
    ELSE None

\* edges.iter().enumerate().skip(next_neighbour).filter(not visited).next()
NextVertex(edges, next_neighbour, vis) ==
    LET cand == {i \in next_neighbour..(Len(edges) - 1) : edges[i + 1] \notin vis}
    IN  IF cand = {} THEN None
        ELSE LET i == CHOOSE i \in cand : \A j \in cand : i <= j
             IN  Some(<<i, edges[i + 1]>>)

\* stack.iter().map(|&(v, _)| Rc::clone(v)).collect()
PathOf(stk) == [k \in 1..Len(stk) |-> stk[k][1]]

\* The popped frame not pushed back before the path is collected.
ReturnedPath_NoPushBack(stk, current_vertex, next_neighbour) == PathOf(stk)

\* stack.push((current_vertex, next_neighbour)); return Some(path)
ReturnedPath(stk, current_vertex, next_neighbour) ==
    PathOf(Append(stk, <<current_vertex, next_neighbour>>))

\* Only the neighbour's frame pushed: the current frame is lost.
PushFrames_NeighbourOnly(stk, current_vertex, i, vertex) ==
    Append(stk, <<vertex, 0>>)

\* The current frame pushed back with the index of the neighbour taken, not
\* with the one after it.
PushFrames_SameIndex(stk, current_vertex, i, vertex) ==
    Append(Append(stk, <<current_vertex, i>>), <<vertex, 0>>)

\* stack.push((current_vertex, i + 1)); stack.push((vertex, 0))
PushFrames(stk, current_vertex, i, vertex) ==
    Append(Append(stk, <<current_vertex, i + 1>>), <<vertex, 0>>)

\* The graph dfs runs on: self, or max_flow's residual graph.
Searched == IF op = "max_flow" THEN graph ELSE adjancency

Top == stack[Len(stack)]
Popped == SubSeq(stack, 1, Len(stack) - 1)

\* let mut visited = ...; let mut stack = vec![(start, 0)];
DfsEnter(s) ==
    /\ visited' = {}
    /\ stack' = <<<<s, 0>>>>
    /\ order' = New
    /\ abandoned' = {}
    /\ path' = None
    /\ pushes' = (s :> 1)
    /\ pc' = "dfs"

CallDfs ==
    /\ pc = "idle"
    /\ \E s, t \in nodes : start' = s /\ target' = t /\ DfsEnter(s)
    /\ op' = "dfs"
    /\ UNCHANGED <<nodes, adjancency, window, graph, flow, result, caller,
                   matches, augmentations, days>>

\* current_vertex == target: the path is the stack with the frame pushed back
DfsFound ==
    /\ pc = "dfs" /\ stack # <<>>
    /\ Top[1] = target
    /\ visited' = visited \cup {Top[1]}
    /\ stack' = Append(Popped, Top)
    /\ path' = Some(ReturnedPath(Popped, Top[1], Top[2]))
    /\ pc' = IF op = "max_flow" THEN "mf_body" ELSE "returned"
    /\ UNCHANGED <<nodes, adjancency, op, start, target, order, abandoned,
                   window, graph, flow, result, caller, matches,
                   augmentations, pushes, days>>

\* The order in which the successor set of v iterates: fixed during one
\* search, whatever the hash function makes it.
Shown(v) ==
    IF v \in DOMAIN order THEN {order[v]} ELSE IterOrders(Searched[v])

\* order, with the iteration order of v's successor set recorded
Showing(v, edges) ==
    IF v \in DOMAIN order THEN order ELSE order @@ (v :> edges)

\* pushes, with one more new frame (v, 0) counted
Pushed(v) ==
    IF v \in DOMAIN pushes THEN [pushes EXCEPT ![v] = @ + 1]
    ELSE pushes @@ (v :> 1)

\* an unvisited neighbour at or after next_neighbour: push both frames
DfsAdvance ==
    /\ pc = "dfs" /\ stack # <<>>
    /\ Top[1] # target
    /\ Top[1] \in DOMAIN Searched
    /\ \E edges \in Shown(Top[1]) :
         LET next_vertex == NextVertex(edges, Top[2], visited \cup {Top[1]})
         IN  /\ IsSome(next_vertex)
             /\ order' = Showing(Top[1], edges)
             /\ stack' = PushFrames(Popped, Top[1], Unwrap(next_vertex)[1],
                                    Unwrap(next_vertex)[2])
             /\ pushes' = Pushed(Unwrap(next_vertex)[2])
    /\ visited' = visited \cup {Top[1]}
    /\ UNCHANGED <<nodes, adjancency, pc, op, start, target, abandoned, path,
                   window, graph, flow, result, caller, matches,
                   augmentations, days>>

\* no entry, or no unvisited neighbour left: the frame stays popped
DfsBacktrack ==
    /\ pc = "dfs" /\ stack # <<>>
    /\ Top[1] # target
    /\ \/ /\ Top[1] \notin DOMAIN Searched
          /\ order' = order
       \/ /\ Top[1] \in DOMAIN Searched
          /\ \E edges \in Shown(Top[1]) :
               /\ ~IsSome(NextVertex(edges, Top[2], visited \cup {Top[1]}))
               /\ order' = Showing(Top[1], edges)
    /\ visited' = visited \cup {Top[1]}
    /\ stack' = Popped
    /\ abandoned' = abandoned \cup {Top[1]}
    /\ UNCHANGED <<nodes, adjancency, pc, op, start, target, path, window,
                   graph, flow, result, caller, matches, augmentations, pushes,
                   days>>

\* stack.pop() is None: the loop ends and dfs returns None
DfsExhausted ==
    /\ pc = "dfs" /\ stack = <<>>
    /\ path' = None
    /\ pc' = IF op = "max_flow" THEN "mf_filter" ELSE "returned"
    /\ UNCHANGED <<nodes, adjancency, op, start, target, visited, stack,
                   order, abandoned, window, graph, flow, result, caller,
                   matches, augmentations, pushes, days>>

----------------------------------------------------------------------------
\* max_flow

\* The flow graph started as a copy of the input graph.
InitialFlow_Clone(self) == self

\* let mut flow = Self::new();
InitialFlow(self) == New

\* let mut graph = self.clone();
Clone(self) == self

\* max_flow(&self, start, end) is entered on the graph self
MaxFlowEnter(self, s, e) ==
    /\ start' = s /\ target' = e
    /\ op' = "max_flow"
    /\ graph' = Clone(self)
    /\ flow' = InitialFlow(self)
    /\ augmentations' = 0
    /\ pc' = "mf_loop"

CallMaxFlow ==
    /\ pc = "idle"
    /\ \E s, e \in nodes : MaxFlowEnter(adjancency, s, e)
    /\ UNCHANGED <<nodes, adjancency, visited, stack, order, abandoned, path,
                   window, result, caller, matches, pushes, days>>

\* while let Some(path) = graph.dfs(start, end)
MaxFlowSearch ==
    /\ pc = "mf_loop"
    /\ DfsEnter(start)
    /\ window' = 0
    /\ UNCHANGED <<nodes, adjancency, op, start, target, graph, flow, result,
                   caller, matches, augmentations, days>>

\* The reverse edge left in the flow: flow.remove_edge(edge.1, edge.0) left out.
FlowAfterEdge_NoCancel(f, u, v) == add_edge(f, u, v)

\* flow.add_edge(edge.0, edge.1); flow.remove_edge(edge.1, edge.0);
FlowAfterEdge(f, u, v) == remove_edge(add_edge(f, u, v), v, u)

\* The used edge left in the residual graph: graph.remove_edge(edge.0,
\* edge.1) left out.
ResidualAfterEdge_ForwardKept(r, u, v) == add_edge(r, v, u)

\* No reverse edge put into the residual graph: graph.add_edge(edge.1,
\* edge.0) left out.
ResidualAfterEdge_NoReverse(r, u, v) == remove_edge(r, u, v)

\* graph.add_edge(edge.1, edge.0); graph.remove_edge(edge.0, edge.1);
ResidualAfterEdge(r, u, v) == remove_edge(add_edge(r, v, u), u, v)

\* The residual update written to self instead of to its clone.
SelfAfterEdge_Written(self, u, v) == ResidualAfterEdge(self, u, v)

\* max_flow takes &self: no statement of the loop writes self.adjancency.
SelfAfterEdge(self, u, v) == self

\* One iteration of for edge in path.iter().tuple_windows(): the window
\* (path[window], path[window + 1]), counted from 0.
MaxFlowAugment ==
    /\ pc = "mf_body"
    /\ window + 1 < Len(Unwrap(path))
    /\ LET u == Unwrap(path)[window + 1]
           v == Unwrap(path)[window + 2]
       IN  /\ flow' = FlowAfterEdge(flow, u, v)
           /\ graph' = ResidualAfterEdge(graph, u, v)
           /\ adjancency' = SelfAfterEdge(adjancency, u, v)
    /\ window' = window + 1
    /\ UNCHANGED <<nodes, pc, op, start, target, visited, stack, order,
                   abandoned, path, result, caller, matches, augmentations,
                   pushes, days>>

\* The windows of the path are used up: back to the while condition.
MaxFlowAugmented ==
    /\ pc = "mf_body"
    /\ window + 1 >= Len(Unwrap(path))
    /\ augmentations' = IF augmentations < MaxAugmentations
                        THEN augmentations + 1 ELSE augmentations
    /\ pc' = "mf_loop"
    /\ UNCHANGED <<nodes, adjancency, op, start, target, visited, stack,
                   order, abandoned, path, window, graph, flow, result,
                   caller, matches, pushes, days>>

\* The final filter left out: the flow graph is returned as the loop left it.
FilterFlow_Omitted(f, self) == f

\* for (vertex, edges) in flow.adjancency.iter_mut() { *edges = filter ... }
FilterFlow(f, self) ==
    [vertex \in DOMAIN f |-> {j \in f[vertex] : HasEdge(self, vertex, j)}]

MaxFlowReturn ==
    /\ pc = "mf_filter"
    /\ result' = FilterFlow(flow, adjancency)
    /\ pc' = "returned"
    /\ UNCHANGED <<nodes, adjancency, op, start, target, visited, stack,
                   order, abandoned, path, window, graph, flow, caller,
                   matches, augmentations, pushes, days>>

----------------------------------------------------------------------------
\* dfs and max_flow run to their return: what a call can return, over the
\* orders in which the successor sets may iterate

\* The loop of dfs from (visited, stack), ord holding the iteration orders
\* the search has seen
RECURSIVE DfsRun(_, _, _, _, _)
DfsRun(g, t, vis, stk, ord) ==
    IF stk = <<>> THEN {None}
    ELSE LET current_vertex == stk[Len(stk)][1]
             next_neighbour == stk[Len(stk)][2]
             rest == SubSeq(stk, 1, Len(stk) - 1)
             seen == vis \cup {current_vertex}
         IN  IF current_vertex = t
             THEN {Some(ReturnedPath(rest, current_vertex, next_neighbour))}
             ELSE IF current_vertex \notin DOMAIN g
             THEN DfsRun(g, t, seen, rest, ord)
             ELSE UNION {
                    LET next_vertex == NextVertex(edges, next_neighbour, seen)
                        shown == IF current_vertex \in DOMAIN ord THEN ord
                                 ELSE ord @@ (current_vertex :> edges)
                    IN  IF IsSome(next_vertex)
                        THEN DfsRun(g, t, seen,
                                    PushFrames(rest, current_vertex,
                                               Unwrap(next_vertex)[1],
                                               Unwrap(next_vertex)[2]),
                                    shown)
                        ELSE DfsRun(g, t, seen, rest, shown)
                    : edges \in IF current_vertex \in DOMAIN ord
                                THEN {ord[current_vertex]}
                                ELSE IterOrders(g[current_vertex])}

\* The values self.dfs(s, t) can return
DfsResults(self, s, t) == DfsRun(self, t, {}, <<<<s, 0>>>>, New)

\* for edge in path.iter().tuple_windows(): the flow graph after the loop
RECURSIVE FlowAlong(_, _)
FlowAlong(f, p) ==
    IF Len(p) < 2 THEN f
    ELSE FlowAlong(FlowAfterEdge(f, p[1], p[2]), Tail(p))

\* the residual graph after the loop
RECURSIVE ResidualAlong(_, _)
ResidualAlong(r, p) ==
    IF Len(p) < 2 THEN r
    ELSE ResidualAlong(ResidualAfterEdge(r, p[1], p[2]), Tail(p))

\* The while loop of max_flow from the residual graph r and the flow graph
\* f, and the final filter
RECURSIVE MaxFlowRun(_, _, _, _, _)
MaxFlowRun(self, s, e, r, f) ==
    UNION {IF IsSome(p)
           THEN MaxFlowRun(self, s, e, ResidualAlong(r, Unwrap(p)),
                           FlowAlong(f, Unwrap(p)))
           ELSE {FilterFlow(f, self)}
           : p \in DfsResults(r, s, e)}

\* The graphs self.max_flow(s, e) can return, for s # e
MaxFlowResults(self, s, e) ==
    MaxFlowRun(self, s, e, Clone(self), InitialFlow(self))

----------------------------------------------------------------------------
\* The caller

AddEdge ==
    /\ pc = "idle"
    /\ \E from, to \in nodes :
         /\ Cardinality(Edges(add_edge(adjancency, from, to))) <= MaxEdges
         /\ adjancency' = add_edge(adjancency, from, to)
    /\ UNCHANGED <<nodes, pc, op, start, target, visited, stack, order,
                   abandoned, path, window, graph, flow, result, caller,
                   matches, augmentations, pushes, days>>

RemoveEdge ==
    /\ pc = "idle"
    /\ \E from, to \in nodes : adjancency' = remove_edge(adjancency, from, to)
    /\ UNCHANGED <<nodes, pc, op, start, target, visited, stack, order,
                   abandoned, path, window, graph, flow, result, caller,
                   matches, augmentations, pushes, days>>

\* No XmasProcessor has been made.
XmasUnused ==
    /\ preamble_len = 0
    /\ window_queue = <<>> /\ window_tree = {}
    /\ values = <<>> /\ push_result = None

\* No FerryCellularAutomaton has been parsed.
FerryUnused ==
    /\ state = <<>> /\ state_buffer = <<>>
    /\ n_columns = 0 /\ n_rows = 0

\* No handheld program has been read.
HandheldUnused ==
    /\ program = <<>>
    /\ accumulator = 0 /\ instruction_pointer = 0
    /\ halting_nodes = {} /\ queue = <<>>
    /\ fixed = FALSE /\ replacements = 0

\* The programs that do not use the graph have not been started.
DaysUnused == XmasUnused /\ FerryUnused /\ HandheldUnused

Idle ==
    /\ pc = "idle"
    /\ op = "none"
    /\ start = 0 /\ target = 0
    /\ visited = {} /\ stack = <<>> /\ order = New /\ abandoned = {}
    /\ path = None
    /\ window = 0
    /\ graph = New /\ flow = New /\ result = New
    /\ caller = "none" /\ matches = None
    /\ augmentations = 0 /\ pushes = <<>>

\* DirectedGraph::new(), over the caller's NVertices nodes
Init ==
    /\ nodes = 0..(NVertices - 1)
    /\ adjancency = New
    /\ Idle
    /\ DaysUnused

Run ==
    \/ CallDfs \/ DfsFound \/ DfsAdvance \/ DfsBacktrack \/ DfsExhausted
    \/ CallMaxFlow \/ MaxFlowSearch \/ MaxFlowAugment \/ MaxFlowAugmented
    \/ MaxFlowReturn

Next == AddEdge \/ RemoveEdge \/ Run

Spec == Init /\ [][Next]_vars

----------------------------------------------------------------------------
\* The graphs of the tests, and graphs with pairs of opposite edges

\* tests::test_dfs
TestDfsGraph == FromEdges(<<<<0, 1>>, <<1, 2>>, <<1, 3>>, <<3, 4>>>>)

\* tests::test_max_flow
TestMaxFlowGraph ==
    FromEdges(<<<<0, 1>>, <<0, 2>>, <<1, 3>>, <<1, 4>>, <<2, 3>>, <<3, 5>>,
                <<4, 5>>>>)

\* Two routes 0-1-5 and 0-2-5 whose middle vertices are joined both ways.
OppositeGraph ==
    FromEdges(<<<<0, 1>>, <<0, 2>>, <<1, 2>>, <<2, 1>>, <<1, 5>>, <<2, 5>>>>)

\* The same with a third route 0-3-2-1-4-5 through the edge 2 -> 1.
OppositeGraph3 ==
    FromEdges(<<<<0, 1>>, <<0, 2>>, <<0, 3>>, <<1, 2>>, <<2, 1>>, <<3, 2>>,
                <<1, 4>>, <<1, 5>>, <<2, 5>>, <<4, 5>>>>)

ScenarioGraphs == {TestDfsGraph, TestMaxFlowGraph, OppositeGraph, OppositeGraph3}

RECURSIVE RemoveAll(_, _)
RemoveAll(g, es) ==
    IF es = {} THEN g
    ELSE LET e == CHOOSE e \in es : TRUE
         IN  RemoveAll(remove_edge(g, e[1], e[2]), es \ {e})

\* The caller builds a scenario graph with the add_edge calls of its test,
\* and then calls remove_edge at most MaxRemoved times.
BuildScenario ==
    /\ pc = "idle"
    /\ adjancency = New
    /\ \E g \in ScenarioGraphs :
         \E es \in {x \in SUBSET Edges(g) : Cardinality(x) <= MaxRemoved} :
            adjancency' = RemoveAll(g, es)
    /\ UNCHANGED <<nodes, pc, op, start, target, visited, stack, order,
                   abandoned, path, window, graph, flow, result, caller,
                   matches, augmentations, pushes, days>>

\* DirectedGraph::new(), over the TestNodes nodes of the tests
InitScenario ==
    /\ nodes = 0..(TestNodes - 1)
    /\ adjancency = New
    /\ Idle
    /\ DaysUnused

NextScenario == BuildScenario \/ Run

SpecScenario == InitScenario /\ [][NextScenario]_vars

\* A function that was called runs on until it returns: the program is
\* single-threaded and nothing suspends a call.
Step ==
    \/ DfsFound \/ DfsAdvance \/ DfsBacktrack \/ DfsExhausted
    \/ MaxFlowSearch \/ MaxFlowAugment \/ MaxFlowAugmented \/ MaxFlowReturn

FairSpec == Spec /\ WF_vars(Step)

FairSpecScenario == SpecScenario /\ WF_vars(Step)

----------------------------------------------------------------------------
\* The callers that match with max_flow: find_rules_to_fields_map of day16
\* (rules to ticket fields) and canonical_dangerous_ingredient_list of day21
\* (allergens to ingredients)

\* Number of rules in the test notes of day16, and of allergens (and of
\* ingredients that may hold one) in the test foods of day21.
TestPairs == 3

\* Node::Other("start"); the rules; the fields; Node::Other("end")
StartNode == 0
Rules == 1..TestPairs
Fields == (TestPairs + 1)..(2 * TestPairs)
EndNode == 2 * TestPairs + 1

\* Node::Field(i) of the vertex: fields are (0..rules.len()).map(Node::Field)
FieldIndex(v) == v - (TestPairs + 1)

\* day21: the allergens, sorted, and the ingredients
Allergens == Rules
Ingredients == Fields

RECURSIVE AddAll(_, _)
AddAll(g, es) ==
    IF es = {} THEN g
    ELSE LET e == CHOOSE e \in es : TRUE
         IN  AddAll(add_edge(g, e[1], e[2]), es \ {e})

\* day16: start -> rule for every rule, rule -> field where every valid
\* ticket fits (the pairs of valid), field -> end for every field
RulesToFieldsGraph(valid) ==
    AddAll(New, {<<StartNode, r>> : r \in Rules} \cup valid
                \cup {<<f, EndNode>> : f \in Fields})

\* day21: start -> allergen for every allergen, allergen -> ingredient and
\* ingredient -> end for every pair of might_be_contained_in
DangerousIngredientGraph(might_be_contained_in) ==
    AddAll(New, {<<StartNode, a>> : a \in Allergens} \cup might_be_contained_in
                \cup {<<e[2], EndNode>> : e \in might_be_contained_in})

\* day16: the graph is built from the notes (any rules and tickets)
FindRulesToFieldsMap ==
    /\ pc = "idle" /\ caller = "none"
    /\ \E valid \in SUBSET (Rules \X Fields) :
          adjancency' = RulesToFieldsGraph(valid)
    /\ caller' = "find_rules_to_fields_map"
    /\ pc' = "built"
    /\ UNCHANGED <<nodes, op, start, target, visited, stack, order, abandoned,
                   path, window, graph, flow, result, matches, augmentations,
                   pushes, days>>

\* day21: the graph is built from the foods (any foods)
CanonicalDangerousIngredientList ==
    /\ pc = "idle" /\ caller = "none"
    /\ \E might_be_contained_in \in SUBSET (Allergens \X Ingredients) :
          adjancency' = DangerousIngredientGraph(might_be_contained_in)
    /\ caller' = "canonical_dangerous_ingredient_list"
    /\ pc' = "built"
    /\ UNCHANGED <<nodes, op, start, target, visited, stack, order, abandoned,
                   path, window, graph, flow, result, matches, augmentations,
                   pushes, days>>

\* let flow = graph.max_flow(&start, &end);
CallerMaxFlow ==
    /\ pc = "built"
    /\ MaxFlowEnter(adjancency, StartNode, EndNode)
    /\ UNCHANGED <<nodes, adjancency, visited, stack, order, abandoned, path,
                   window, result, caller, matches, pushes, days>>

\* What .iter().next() may show for the successor set of v in f: any
\* element, or None when v has no entry (get / index fails) or the set is
\* empty.
IterNext(f, v) ==
    IF Successors(f, v) = {} THEN {None}
    ELSE {Some(x) : x \in Successors(f, v)}

\* One .iter().next() per left vertex, in the order of the left vertices.
FirstSuccessors(f, left) ==
    {m \in [left -> UNION {IterNext(f, v) : v \in left}] :
        \A v \in left : m[v] \in IterNext(f, v)}

\* The left vertices without a successor skipped instead of unwrapped.
Collect_SkipNone(m) ==
    LET Found(o) == IsSome(o)
        found == SelectSeq(m, Found)
    IN  Some([i \in 1..Len(found) |-> Unwrap(found[i])])

\* .map(|v| ... .unwrap() ...).collect(): the vector, or None when an
\* unwrap panicked
Collect(m) ==
    IF \E v \in DOMAIN m : m[v] = None THEN None
    ELSE Some([v \in DOMAIN m |-> Unwrap(m[v])])

\* if let Node::Field(field) = ... { field } else { unreachable!() }
ToFieldIndices(collected) ==
    IF ~IsSome(collected) THEN None
    ELSE IF \E i \in DOMAIN Unwrap(collected) : Unwrap(collected)[i] \notin Fields
         THEN None
         ELSE Some([i \in DOMAIN Unwrap(collected) |->
                       FieldIndex(Unwrap(collected)[i])])

\* day16: flow.adjancency.get(rule).unwrap().iter().next().unwrap() for
\* every rule
RulesToFieldsCollect ==
    /\ pc = "returned" /\ op = "max_flow"
    /\ caller = "find_rules_to_fields_map"
    /\ \E m \in FirstSuccessors(result, Rules) :
          /\ matches' = ToFieldIndices(Collect(m))
          /\ pc' = IF IsSome(ToFieldIndices(Collect(m)))
                   THEN "extracted" ELSE "panicked"
    /\ UNCHANGED <<nodes, adjancency, op, start, target, visited, stack,
                   order, abandoned, path, window, graph, flow, result,
                   caller, augmentations, pushes, days>>

\* day21: flow.adjancency[allergen].iter().next().unwrap() for the sorted
\* allergens
DangerousIngredientsCollect ==
    /\ pc = "returned" /\ op = "max_flow"
    /\ caller = "canonical_dangerous_ingredient_list"
    /\ \E m \in FirstSuccessors(result, Allergens) :
          /\ matches' = Collect(m)
          /\ pc' = IF IsSome(Collect(m)) THEN "extracted" ELSE "panicked"
    /\ UNCHANGED <<nodes, adjancency, op, start, target, visited, stack,
                   order, abandoned, path, window, graph, flow, result,
                   caller, augmentations, pushes, days>>

\* DirectedGraph::new(), over the nodes the callers create
InitMatching ==
    /\ nodes = StartNode..EndNode
    /\ adjancency = New
    /\ Idle
    /\ DaysUnused

NextMatching ==
    \/ FindRulesToFieldsMap \/ CanonicalDangerousIngredientList
    \/ CallerMaxFlow
    \/ DfsFound \/ DfsAdvance \/ DfsBacktrack \/ DfsExhausted
    \/ MaxFlowSearch \/ MaxFlowAugment \/ MaxFlowAugmented \/ MaxFlowReturn
    \/ RulesToFieldsCollect \/ DangerousIngredientsCollect

SpecMatching == InitMatching /\ [][NextMatching]_vars

----------------------------------------------------------------------------
\* The usize-indexed DirectedGraph of day16/src/graph.rs: adjancency is a
\* Vec<HashSet<usize>> of n_vertices entries, read and written by index.
\* Where the index is in bounds its operations do what the operations of
\* the generic graph do on a map that has all the entries; an index out of
\* bounds panics.

\* vec![HashSet::new(); n_vertices]
NewIndexed(n_vertices) == [v \in 0..(n_vertices - 1) |-> {}]

\* The bounds check off by one: the last entry cannot be indexed.
InBounds_LastExcluded(g, v) == v + 1 \in DOMAIN g

\* self.adjancency[v] does not panic
InBounds(g, v) == v \in DOMAIN g

\* The call that panicked, with its arguments
Panicked(name, from, to) ==
    /\ pc' = "panicked"
    /\ op' = name /\ start' = from /\ target' = to

\* self.adjancency[from].insert(to)
IndexedAddEdge ==
    /\ pc = "idle"
    /\ \E from, to \in nodes :
          IF InBounds(adjancency, from)
          THEN /\ Cardinality(Edges(add_edge(adjancency, from, to))) <= MaxEdges
               /\ adjancency' = add_edge(adjancency, from, to)
               /\ UNCHANGED <<pc, op, start, target>>
          ELSE /\ Panicked("add_edge", from, to)
               /\ adjancency' = adjancency
    /\ UNCHANGED <<nodes, visited, stack, order, abandoned, path, window,
                   graph, flow, result, caller, matches, augmentations, pushes,
                   days>>

\* self.adjancency[from].remove(&to)
IndexedRemoveEdge ==
    /\ pc = "idle"
    /\ \E from, to \in nodes :
          IF InBounds(adjancency, from)
          THEN /\ adjancency' = remove_edge(adjancency, from, to)
               /\ UNCHANGED <<pc, op, start, target>>
          ELSE /\ Panicked("remove_edge", from, to)
               /\ adjancency' = adjancency
    /\ UNCHANGED <<nodes, visited, stack, order, abandoned, path, window,
                   graph, flow, result, caller, matches, augmentations, pushes,
                   days>>

\* self.adjancency[current_vertex] is in bounds and has no unvisited
\* neighbour left
IndexedDfsBacktrack ==
    /\ pc = "dfs" /\ stack # <<>>
    /\ InBounds(Searched, Top[1])
    /\ DfsBacktrack

\* self.adjancency[current_vertex] is out of bounds: current_vertex is not
\* the target (that was tested first) and has no entry
IndexedDfsPanic ==
    /\ pc = "dfs" /\ stack # <<>>
    /\ Top[1] # target
    /\ ~InBounds(Searched, Top[1])
    /\ pc' = "panicked"
    /\ visited' = visited \cup {Top[1]}
    /\ stack' = Popped
    /\ UNCHANGED <<nodes, adjancency, op, start, target, order, abandoned,
                   path, window, graph, flow, result, caller, matches,
                   augmentations, pushes, days>>

\* let mut graph = self.clone();
\* let mut flow = Self::new(self.adjancency.len());
IndexedCallMaxFlow ==
    /\ pc = "idle"
    /\ \E s, e \in nodes : start' = s /\ target' = e
    /\ op' = "max_flow"
    /\ graph' = Clone(adjancency)
    /\ flow' = NewIndexed(Cardinality(DOMAIN adjancency))
    /\ augmentations' = 0
    /\ pc' = "mf_loop"
    /\ UNCHANGED <<nodes, adjancency, visited, stack, order, abandoned, path,
                   window, result, caller, matches, pushes, days>>

\* One window (u, v) of the path whose four index accesses are in bounds
IndexedMaxFlowAugment ==
    /\ pc = "mf_body"
    /\ window + 1 < Len(Unwrap(path))
    /\ InBounds(flow, Unwrap(path)[window + 1])
    /\ InBounds(flow, Unwrap(path)[window + 2])
    /\ MaxFlowAugment

\* One window (u, v) of the path with u or v out of bounds: flow.add_edge
\* (u, v) or flow.remove_edge(v, u) panics
IndexedMaxFlowPanic ==
    /\ pc = "mf_body"
    /\ window + 1 < Len(Unwrap(path))
    /\ \/ ~InBounds(flow, Unwrap(path)[window + 1])
       \/ ~InBounds(flow, Unwrap(path)[window + 2])
    /\ pc' = "panicked"
    /\ UNCHANGED <<nodes, adjancency, op, start, target, visited, stack,
                   order, abandoned, path, window, graph, flow, result,
                   caller, matches, augmentations, pushes, days>>

\* The graphs self.max_flow(s, e) of the usize-indexed graph can return, for
\* s # e and all vertices in bounds: the flow graph starts with n_vertices
\* empty entries
IndexedMaxFlowResults(self, s, e) ==
    MaxFlowRun(self, s, e, Clone(self), NewIndexed(Cardinality(DOMAIN self)))

\* DirectedGraph::new(n_vertices) for any n_vertices up to the number of
\* vertices the caller names
InitIndexed ==
    /\ nodes = 0..(NVertices - 1)
    /\ \E n_vertices \in 0..NVertices : adjancency = NewIndexed(n_vertices)
    /\ Idle
    /\ DaysUnused

NextIndexed ==
    \/ IndexedAddEdge \/ IndexedRemoveEdge
    \/ CallDfs \/ DfsFound \/ DfsAdvance \/ IndexedDfsBacktrack
    \/ IndexedDfsPanic \/ DfsExhausted
    \/ IndexedCallMaxFlow \/ MaxFlowSearch \/ IndexedMaxFlowAugment
    \/ IndexedMaxFlowPanic \/ MaxFlowAugmented \/ MaxFlowReturn

SpecIndexed == InitIndexed /\ [][NextIndexed]_vars

----------------------------------------------------------------------------
\* No graph is built and none of its functions is called.
GraphUnused ==
    /\ nodes = {}
    /\ adjancency = New
    /\ Idle

----------------------------------------------------------------------------
\* day9: XmasProcessor keeps the last preamble_len values in a queue and in
\* a hash set, and push tells whether the value pushed is the sum of two of
\* them.

\* The elements of a sequence
Range(q) == {q[i] : i \in DOMAIN q}

\* self.window_tree.remove(&self.window_queue.pop_front().unwrap())
TreeAfterPop(tree, popped) == tree \ {popped}

\* self.window_queue.iter().any(|x| value.checked_sub(*x) is Some(diff) and
\* self.window_tree.contains(&diff))
AnyPairSums(q, tree, value) ==
    \E i \in DOMAIN q : value >= q[i] /\ (value - q[i]) \in tree

\* XmasProcessor::new(preamble_len), as main (25) and the test (5) make it:
\* with a positive preamble_len
XmasNew ==
    /\ preamble_len \in 1..MaxPreamble
    /\ window_queue = <<>>
    /\ window_tree = {}
    /\ values = <<>>
    /\ push_result = None

\* push(&mut self, value)
XmasPush ==
    /\ Len(values) < MaxPushes
    /\ \E value \in 0..MaxValue :
          /\ values' = Append(values, value)
          /\ IF preamble_len <= Len(window_queue)
             THEN /\ push_result'
                       = Some(AnyPairSums(window_queue, window_tree, value))
                  /\ window_queue' = Append(Tail(window_queue), value)
                  /\ window_tree'
                       = TreeAfterPop(window_tree, Head(window_queue))
                            \cup {value}
             ELSE /\ push_result' = Some(TRUE)
                  /\ window_queue' = Append(window_queue, value)
                  /\ window_tree' = window_tree \cup {value}
    /\ UNCHANGED <<graphVars, preamble_len, ferry, handheld>>

InitXmas == GraphUnused /\ XmasNew /\ FerryUnused /\ HandheldUnused

NextXmas == XmasPush

SpecXmas == InitXmas /\ [][NextXmas]_vars

----------------------------------------------------------------------------
\* day11: FerryCellularAutomaton holds a grid of floor and seats, advance
\* computes the next generation into state_buffer and swaps, and
\* advance_to_stable_state advances until two generations are equal.

\* enum GridPos
Floor == <<"Floor">>
Seat(is_occupied) == <<"Seat", is_occupied>>
GridPos == {Floor, Seat(FALSE), Seat(TRUE)}

\* GridPos::is_occupied
is_occupied(pos) == pos = Seat(TRUE)

pos2idx(pos) == pos[1] * n_columns + pos[2]

idx2pos(idx) == <<idx \div n_columns, idx % n_columns>>

\* neighbours(&self, (x, y)): the positions next to (x, y) inside the grid
neighbours(pos) ==
    LET x == pos[1]
        y == pos[2]
    IN  (IF x > 0
         THEN (IF y > 0 THEN {<<x - 1, y - 1>>} ELSE {})
              \cup {<<x - 1, y>>}
              \cup (IF y < n_columns - 1 THEN {<<x - 1, y + 1>>} ELSE {})
         ELSE {})
        \cup (IF y > 0 THEN {<<x, y - 1>>} ELSE {})
        \cup (IF y < n_columns - 1 THEN {<<x, y + 1>>} ELSE {})
        \cup (IF x < n_rows - 1
              THEN (IF y > 0 THEN {<<x + 1, y - 1>>} ELSE {})
                   \cup {<<x + 1, y>>}
                   \cup (IF y < n_columns - 1 THEN {<<x + 1, y + 1>>} ELSE {})
              ELSE {})

\* match (seat, n_occupied_neighbours) { ... }
NextSeat(seat, n_occupied_neighbours) ==
    IF seat = Seat(FALSE) /\ n_occupied_neighbours = 0 THEN Seat(TRUE)
    ELSE IF seat = Seat(TRUE) /\ n_occupied_neighbours >= 4 THEN Seat(FALSE)
    ELSE seat

\* The generation that advance computes from the generation st
Advanced(st) ==
    [i \in DOMAIN st |->
        NextSeat(st[i],
                 Cardinality({neighbour \in neighbours(idx2pos(i)) :
                                 is_occupied(st[pos2idx(neighbour)])}))]

\* Seats in an octagon, floor in the four corners.
OctagonGrid ==
    <<<<Floor, Seat(FALSE), Seat(FALSE), Floor>>,
      <<Seat(FALSE), Seat(FALSE), Seat(FALSE), Seat(FALSE)>>,
      <<Seat(FALSE), Seat(FALSE), Seat(FALSE), Seat(FALSE)>>,
      <<Floor, Seat(FALSE), Seat(FALSE), Floor>>>>

\* Grids that are parsed beside the small ones
FerryGrids == {OctagonGrid}

\* FerryCellularAutomaton::parse of the rectangular grid of rows grid
Parsed(grid) ==
    /\ n_columns = Len(grid[1])
    /\ n_rows = Len(grid)
    /\ state = [i \in 0..(Len(grid[1]) * Len(grid) - 1) |->
                  grid[(i \div Len(grid[1])) + 1][(i % Len(grid[1])) + 1]]
    /\ state_buffer = [i \in 0..(Len(grid[1]) * Len(grid) - 1) |-> Floor]

\* parse of any grid of a few rows and columns, or of one of FerryGrids
FerryParse ==
    \/ \E rows \in 1..MaxRows, columns \in 1..MaxColumns :
          \E grid \in [1..rows -> [1..columns -> GridPos]] : Parsed(grid)
    \/ \E grid \in FerryGrids : Parsed(grid)

\* advance_to_stable_state is called
CallAdvanceToStableState ==
    /\ pc = "idle"
    /\ pc' = "advancing"
    /\ op' = "advance_to_stable_state"
    /\ UNCHANGED <<graphData, xmas, ferry, handheld>>

\* while self.state != self.state_buffer { self.advance(); }
FerryAdvance ==
    /\ pc = "advancing"
    /\ state # state_buffer
    /\ state' = Advanced(state)
    /\ state_buffer' = state
    /\ UNCHANGED <<pc, op, graphData, xmas, n_columns, n_rows, handheld>>

\* self.state == self.state_buffer: the loop ends
FerryStable ==
    /\ pc = "advancing"
    /\ state = state_buffer
    /\ pc' = "returned"
    /\ UNCHANGED <<op, graphData, xmas, ferry, handheld>>

InitFerry == GraphUnused /\ XmasUnused /\ FerryParse /\ HandheldUnused

NextFerry == CallAdvanceToStableState \/ FerryAdvance \/ FerryStable

SpecFerry == InitFerry /\ [][NextFerry]_vars

\* advance_to_stable_state runs on until it returns: nothing suspends it.
FairSpecFerry == SpecFerry /\ WF_vars(FerryAdvance \/ FerryStable)

----------------------------------------------------------------------------
\* day8: execute_program_with_self_healing runs a program of acc, jmp and
\* nop, and once takes a jmp for a nop or a nop for a jmp when that leads to
\* an instruction from which the program halts.

\* enum OpCode
Acc(value) == <<"Acc", value>>
Jmp(value) == <<"Jmp", value>>
Nop(value) == <<"Nop", value>>

\* The values of the acc instructions of the programs
AccValues == {1, 2}

\* State { accumulator, instruction_pointer }
State(acc, ip) == [accumulator |-> acc, instruction_pointer |-> ip]

\* reduce(state, operation).  An instruction_pointer below 0 stands for
\* the subtraction from a usize that overflows.
reduce(st, operation) ==
    IF operation[1] = "Acc"
    THEN State(st.accumulator + operation[2], st.instruction_pointer + 1)
    ELSE IF operation[1] = "Jmp"
    THEN State(st.accumulator, st.instruction_pointer + operation[2])
    ELSE State(st.accumulator, st.instruction_pointer + 1)

\* The instruction of program at the instruction pointer ip
At(prog, ip) == prog[ip + 1]

\* Every jmp of prog leads to an instruction of prog or to its end
JumpsInside(prog) ==
    \A i \in 0..(Len(prog) - 1) :
        At(prog, i)[1] = "Jmp"
            => reduce(State(0, i), At(prog, i)).instruction_pointer
                  \in 0..Len(prog)

\* The instructions of a program of n instructions: a nop has any offset
OpCodes(n) ==
    {Acc(v) : v \in AccValues}
        \cup {Jmp(v) : v \in (0 - n)..n}
        \cup {Nop(v) : v \in (0 - MaxOffset)..MaxOffset}

\* The programs that are read
Programs ==
    UNION {{prog \in [1..n -> OpCodes(n)] : JumpsInside(prog)} :
              n \in 0..MaxProgramLen}

\* construct_reverse_flow_graph(program): for every instruction pointer,
\* the instructions that lead to it, in the order of the program
construct_reverse_flow_graph(prog) ==
    [t \in 0..Len(prog) |->
        SelectSeq([k \in 1..Len(prog) |-> k - 1],
                  LAMBDA i :
                      reduce(State(0, i), At(prog, i)).instruction_pointer = t)]

\* (false, Jmp(value)) => Some(Nop(value)), (false, Nop(value)) =>
\* Some(Jmp(value)), _ => None
flipped(is_fixed, operation) ==
    IF ~is_fixed /\ operation[1] = "Jmp" THEN Some(Nop(operation[2]))
    ELSE IF ~is_fixed /\ operation[1] = "Nop" THEN Some(Jmp(operation[2]))
    ELSE None

\* Every flipped instruction taken, whether or not the program halts from
\* where it leads.
FlipTaken_Always(halting, ip) == TRUE

\* halting_nodes.contains(&state_with_flipping.instruction_pointer)
FlipTaken(halting, ip) == ip \in halting

\* The program is read
HandheldRead ==
    /\ program \in Programs
    /\ accumulator = 0 /\ instruction_pointer = 0
    /\ halting_nodes = {} /\ queue = <<>>
    /\ fixed = FALSE /\ replacements = 0

\* let mut state = State::new(); determine_halting_nodes is entered:
\* queue.push_back(reverse_flow_graph.len() - 1)
CallSelfHealing ==
    /\ pc = "idle"
    /\ pc' = "halting_nodes"
    /\ op' = "execute_program_with_self_healing"
    /\ accumulator' = 0 /\ instruction_pointer' = 0
    /\ halting_nodes' = {}
    /\ queue' = <<Len(program)>>
    /\ fixed' = FALSE
    /\ UNCHANGED <<graphData, xmas, ferry, program, replacements>>

\* while let Some(node_idx) = queue.pop_front(): one iteration
HaltingNodesVisit ==
    /\ pc = "halting_nodes"
    /\ queue # <<>>
    /\ halting_nodes' = halting_nodes \cup {Head(queue)}
    /\ queue' = Tail(queue)
                   \o construct_reverse_flow_graph(program)[Head(queue)]
    /\ UNCHANGED <<pc, op, graphData, xmas, ferry, program, accumulator,
                   instruction_pointer, fixed, replacements>>

\* the queue is empty: determine_halting_nodes returns
HaltingNodesReturn ==
    /\ pc = "halting_nodes"
    /\ queue = <<>>
    /\ pc' = "executing"
    /\ UNCHANGED <<op, graphData, xmas, ferry, handheld>>

\* The body of the while loop runs: the loop condition holds, and a run
\* that has replaced nothing is followed up to MaxAccumulator
Executing ==
    /\ pc = "executing"
    /\ instruction_pointer < Len(program)
    /\ fixed \/ accumulator <= MaxAccumulator

\* The flipped instruction and where it leads
Flipped == flipped(fixed, At(program, instruction_pointer))
StateWithFlipping ==
    reduce(State(accumulator, instruction_pointer), Unwrap(Flipped))

\* The subtraction in reduce overflows for the flipped instruction
FlipOverflows ==
    IsSome(Flipped) /\ StateWithFlipping.instruction_pointer < 0

\* The flipped instruction leads to a halting node: state =
\* state_with_flipping; fixed = true; continue
HealFlip ==
    /\ Executing
    /\ IsSome(Flipped)
    /\ ~FlipOverflows
    /\ FlipTaken(halting_nodes, StateWithFlipping.instruction_pointer)
    /\ accumulator' = StateWithFlipping.accumulator
    /\ instruction_pointer' = StateWithFlipping.instruction_pointer
    /\ fixed' = TRUE
    /\ replacements' = replacements + 1
    /\ UNCHANGED <<pc, op, graphData, xmas, ferry, program, halting_nodes,
                   queue>>

\* No flipped instruction, or none that leads to a halting node (a pointer
\* that wrapped around in a build without overflow checks is none): state
\* = reduce(state, operation)
HealStep ==
    /\ Executing
    /\ \/ ~IsSome(Flipped)
       \/ FlipOverflows
       \/ /\ IsSome(Flipped) /\ ~FlipOverflows
          /\ ~FlipTaken(halting_nodes, StateWithFlipping.instruction_pointer)
    /\ LET new_state == reduce(State(accumulator, instruction_pointer),
                               At(program, instruction_pointer))
       IN  /\ accumulator' = new_state.accumulator
           /\ instruction_pointer' = new_state.instruction_pointer
    /\ UNCHANGED <<pc, op, graphData, xmas, ferry, program, halting_nodes,
                   queue, fixed, replacements>>

\* The subtraction in reduce overflows for the flipped instruction, in a
\* build with overflow checks: panic
HealPanic ==
    /\ Executing
    /\ FlipOverflows
    /\ pc' = "panicked"
    /\ UNCHANGED <<op, graphData, xmas, ferry, handheld>>

\* state.instruction_pointer >= program.len(): state.accumulator is returned
HealReturn ==
    /\ pc = "executing"
    /\ instruction_pointer >= Len(program)
    /\ pc' = "returned"
    /\ UNCHANGED <<op, graphData, xmas, ferry, handheld>>

InitHandheld == GraphUnused /\ XmasUnused /\ FerryUnused /\ HandheldRead

NextHandheld ==
    \/ CallSelfHealing \/ HaltingNodesVisit \/ HaltingNodesReturn
    \/ HealFlip \/ HealStep \/ HealPanic \/ HealReturn

SpecHandheld == InitHandheld /\ [][NextHandheld]_vars

\* execute_program_with_self_healing runs on until it returns or panics.
FairSpecHandheld ==
    SpecHandheld
        /\ WF_vars(HaltingNodesVisit \/ HaltingNodesReturn \/ HealFlip
                      \/ HealStep \/ HealReturn)

----------------------------------------------------------------------------
\* Reference notions the properties are stated with

RECURSIVE ReachFrom(_, _)
ReachFrom(g, S) ==
    LET T == S \cup UNION {Successors(g, v) : v \in S}
    IN  IF T = S THEN S ELSE ReachFrom(g, T)

\* t can be reached from s along edges of g (every vertex reaches itself)
Reachable(g, s, t) == t \in ReachFrom(g, {s})

InDegree(g, v) == Cardinality({e \in Edges(g) : e[2] = v})
OutDegree(g, v) == Cardinality(Successors(g, v))

\* Number of edges of g that leave the vertex set S.
CutSize(g, S) == Cardinality({e \in Edges(g) : e[1] \in S /\ e[2] \notin S})

\* The maximum number of edge-disjoint s-t paths of g, as the size of a
\* minimum s-t cut (Menger, max-flow = min-cut).
MaxFlowValue(g, s, t) ==
    LET cuts == {CutSize(g, S \cup {s}) : S \in SUBSET (nodes \ {s, t})}
    IN  CHOOSE m \in cuts : \A c \in cuts : m <= c

\* A unit flow from s to t in g, as a set of edges: every edge carries 0 or
\* 1, and every vertex but s and t has as many edges of F in as out.
IsUnitFlow(g, s, t, F) ==
    /\ F \subseteq Edges(g)
    /\ \A v \in nodes \ {s, t} :
          Cardinality({e \in F : e[2] = v}) = Cardinality({e \in F : e[1] = v})

\* The value of F: what leaves s less what enters it.
FlowValue(F, s) ==
    Cardinality({e \in F : e[1] = s}) - Cardinality({e \in F : e[2] = s})

UnitFlows(g, s, t) == {F \in SUBSET Edges(g) : IsUnitFlow(g, s, t, F)}

\* The unit flows of the largest value.
MaxUnitFlows(g, s, t) ==
    LET fs == UnitFlows(g, s, t)
    IN  {F \in fs : \A G \in fs : FlowValue(G, s) <= FlowValue(F, s)}

\* tests::test_max_flow: expected_flow
ExpectedFlow ==
    FromEdges(<<<<0, 1>>, <<0, 2>>, <<1, 4>>, <<2, 3>>, <<3, 5>>, <<4, 5>>>>)

\* The edges a later path cancelled: their reverse is in the flow graph of
\* the loop and is not an edge of the input graph.
Cancelled == {<<e[2], e[1]>> : e \in Edges(flow) \ Edges(adjancency)}

\* The perfect matchings of g: every rule gets a compatible field of its own.
PerfectMatchings(g) ==
    {m \in [Rules -> Fields] :
        /\ \A r \in Rules : HasEdge(g, r, m[r])
        /\ \A r1, r2 \in Rules : m[r1] = m[r2] => r1 = r2}

\* The matchings of g: sets of left-to-right edges of g in which no left
\* and no right vertex occurs twice
Matchings(g) ==
    {m \in SUBSET {e \in Rules \X Fields : HasEdge(g, e[1], e[2])} :
        \A e1, e2 \in m : (e1[1] = e2[1] \/ e1[2] = e2[2]) => e1 = e2}

\* The size of a maximum-cardinality matching of g
MaxMatchingSize(g) ==
    CHOOSE k \in 0..TestPairs :
        /\ \E m \in Matchings(g) : Cardinality(m) = k
        /\ \A m \in Matchings(g) : Cardinality(m) <= k

\* The left-to-right edges of f
LeftToRight(f) == {e \in Edges(f) : e[1] \in Rules /\ e[2] \in Fields}

\* g without the entry of v
WithoutEntry(g, v) == [u \in DOMAIN g \ {v} |-> g[u]]

\* The vertices with an entry of g that holds the empty set
EmptyEntries(g) == {v \in DOMAIN g : g[v] = {}}

\* g and h give the same dfs results and, for start # end, the same
\* max_flow results, for all arguments
SameResults(g, h) ==
    \A s, t \in nodes :
        /\ DfsResults(g, s, t) = DfsResults(h, s, t)
        /\ s # t => MaxFlowResults(g, s, t) = MaxFlowResults(h, s, t)

\* The HashMap graphs that the add_edge and remove_edge calls that built
\* the usize-indexed graph g can have built: the edges of g, and an entry
\* for every vertex with a successor and for any of the others
GenericTwins(g) ==
    {[v \in DOMAIN g \ D |-> g[v]] : D \in SUBSET EmptyEntries(g)}

\* Every vertex of an edge of the usize-indexed graph g is below n_vertices
WithinBounds(g) ==
    \A e \in Edges(g) : e[1] \in DOMAIN g /\ e[2] \in DOMAIN g

\* The last n elements of the sequence q (all of q when it has fewer)
LastOf(q, n) ==
    IF Len(q) <= n THEN q ELSE SubSeq(q, Len(q) - n + 1, Len(q))

\* v is the sum of two values of the sequence q
SumOfTwo(q, v) == \E x, y \in Range(q) : v = x + y

\* The values pushed before the last push
Previous == SubSeq(values, 1, Len(values) - 1)

\* The instruction pointers that the unmodified execution of prog reaches
\* from the instruction pointer ip, ip included
RECURSIVE Pointers(_, _, _)
Pointers(prog, ip, seen) ==
    IF ip \in seen \/ ip \notin 0..(Len(prog) - 1) THEN seen \cup {ip}
    ELSE Pointers(prog, reduce(State(0, ip), At(prog, ip)).instruction_pointer,
                  seen \cup {ip})

\* The unmodified execution of prog from ip reaches the end of prog
Halts(prog, ip) == Len(prog) \in Pointers(prog, ip, {})

\* g has no self-loop and no pair of opposite edges
NoOppositeEdges(g) == \A e \in Edges(g) : <<e[2], e[1]>> \notin Edges(g)

\* max_flow is between two augmentations, or past the last one
BetweenAugmentations ==
    op = "max_flow" /\ pc \in {"mf_loop", "dfs", "mf_filter", "returned"}

\* The number of new frames the search has pushed plus the number of
\* frames it has popped for good
DfsProgress == Cardinality(DOMAIN pushes) + Cardinality(abandoned)

DfsReturned == pc = "returned" /\ op = "dfs"
MaxFlowReturned == pc = "returned" /\ op = "max_flow"

----------------------------------------------------------------------------
\* Properties

\* C1: for start # end, the flow value of the graph max_flow returns (the
\* out-degree of start in it) is the maximum number of edge-disjoint
\* start-end paths of the input graph, pairs of opposite edges included.
C1_FlowValueIsMaximum ==
    (MaxFlowReturned /\ start # target)
        => OutDegree(result, start) = MaxFlowValue(adjancency, start, target)

\* C2: every edge of the graph max_flow returns is an edge of the input
\* graph; no edge that only the residual graph had is in it.
C2_FlowWithinOriginal ==
    MaxFlowReturned => Edges(result) \subseteq Edges(adjancency)

\* C2 witness: max_flow has returned, and the flow graph its loop left held
\* a reverse edge that the input graph does not have.
C2_Witness ==
    /\ MaxFlowReturned
    /\ Edges(result) # {}
    /\ ~(Edges(flow) \subseteq Edges(adjancency))

\* C3: for start # end, every vertex other than start and end has as many
\* incoming as outgoing edges in the graph max_flow returns.
C3_FlowConservation ==
    (MaxFlowReturned /\ start # target)
        => \A v \in nodes \ {start, target} :
              InDegree(result, v) = OutDegree(result, v)

\* C4: for start # end the augmentation loop of max_flow ends: dfs finds
\* no further path in the residual graph and max_flow returns.
C4_AugmentationTerminates ==
    (op = "max_flow" /\ start # target) ~> (pc = "returned")

\* C4 witness: max_flow has returned for start # end after at least two
\* augmentations.
C4_Witness ==
    /\ MaxFlowReturned
    /\ start # target
    /\ OutDegree(result, start) >= 2

\* C5: max_flow(a, a) returns, and the graph it returns has no edges.
C5_SameVertexReturnsEmpty ==
    (op = "max_flow" /\ start = target)
        ~> (pc = "returned" /\ Edges(result) = {})

\* C6: when end cannot be reached from start (start # end), max_flow
\* returns a graph with no edges.
C6_UnreachableGivesEmptyFlow ==
    (MaxFlowReturned /\ start # target /\ ~Reachable(adjancency, start, target))
        => Edges(result) = {}

\* C6 witness: max_flow has returned for an end that start cannot reach,
\* in a graph where start has a successor other than itself.
C6_Witness ==
    /\ MaxFlowReturned
    /\ start # target
    /\ ~Reachable(adjancency, start, target)
    /\ Successors(adjancency, start) \ {start} # {}

\* C7: no step of max_flow changes the graph it was called on.
C7_CallerGraphUnchanged ==
    [][op' = "max_flow" => adjancency' = adjancency]_vars

\* C7 witness: max_flow has returned a flow with edges, and its residual
\* graph differs from the caller's graph.
C7_Witness ==
    /\ MaxFlowReturned
    /\ Edges(result) # {}
    /\ Edges(graph) # Edges(adjancency)

\* C8: dfs returns a path exactly when target can be reached from start.
C8_PathIffReachable ==
    DfsReturned => (IsSome(path) <=> Reachable(adjancency, start, target))

\* C8 witness: dfs has returned None after leaving start for a neighbour.
C8_Witness ==
    /\ DfsReturned
    /\ path = None
    /\ Cardinality(visited) >= 2

\* C9: a path dfs returns begins with start, ends with target, repeats no
\* vertex, follows edges of the graph, and holds no vertex of an abandoned
\* branch.
C9_PathIsSimpleAndReal ==
    (DfsReturned /\ IsSome(path))
        => LET p == Unwrap(path)
           IN  /\ Len(p) >= 1
               /\ p[1] = start
               /\ p[Len(p)] = target
               /\ \A i, j \in 1..Len(p) : p[i] = p[j] => i = j
               /\ \A i \in 1..(Len(p) - 1) : HasEdge(adjancency, p[i], p[i + 1])
               /\ \A i \in 1..Len(p) : p[i] \notin abandoned

\* C9 witness: dfs has returned a path of several vertices after it
\* abandoned a dead-end branch.
C9_Witness ==
    /\ DfsReturned
    /\ IsSome(path)
    /\ Len(Unwrap(path)) >= 2
    /\ abandoned # {}

\* C10: dfs(a, a) returns the path [a].
C10_SameVertexPath ==
    (DfsReturned /\ start = target) => path = Some(<<start>>)

\* C10 witness: dfs(a, a) has returned for a vertex a that has a successor
\* other than itself.
C10_Witness ==
    /\ DfsReturned
    /\ start = target
    /\ Successors(adjancency, start) \ {start} # {}

\* C11: for start # end, the flow value of the graph max_flow returns (the
\* out-degree of start in it) is at most the number of edges that leave
\* start in the input graph, and at most the number that enter end in it.
C11_FlowValueWithinDegrees ==
    (MaxFlowReturned /\ start # target)
        => /\ OutDegree(result, start) <= OutDegree(adjancency, start)
           /\ OutDegree(result, start) <= InDegree(adjancency, target)

\* C11 witness: max_flow has returned a flow whose value is the number of
\* edges that enter end, with more edges leaving start than that.
C11_Witness ==
    /\ MaxFlowReturned
    /\ start # target
    /\ OutDegree(result, start) >= 1
    /\ OutDegree(result, start) = InDegree(adjancency, target)
    /\ OutDegree(result, start) < OutDegree(adjancency, start)

\* C12: max_flow(0, 5) on the graph of test_max_flow returns exactly the
\* edges 0->1, 0->2, 1->4, 2->3, 3->5, 4->5 whatever order the successor
\* sets iterate in; and whenever the input graph has one maximum unit flow
\* only, the returned graph is that flow and holds neither a cancelled edge
\* nor its reverse.
C12_UniqueMaximumFlowReturned ==
    (MaxFlowReturned /\ start # target)
        => /\ (adjancency = TestMaxFlowGraph /\ start = 0 /\ target = 5)
                 => Edges(result) = Edges(ExpectedFlow)
           /\ LET best == MaxUnitFlows(adjancency, start, target)
              IN  Cardinality(best) = 1
                     => /\ Edges(result) \in best
                        /\ \A e \in Cancelled :
                              /\ e \notin Edges(result)
                              /\ <<e[2], e[1]>> \notin Edges(result)

\* C13: when the compatibility relation of the layered graph start -> left
\* -> right -> end has exactly one perfect matching, then in the graph
\* max_flow returns every left vertex has exactly one successor, its partner
\* in that matching, whatever order the successor sets iterate in; and the
\* caller returns that matching.
C13_UniquePerfectMatchingFound ==
    (caller # "none" /\ pc \in {"returned", "extracted"})
        => LET pm == PerfectMatchings(adjancency)
               m == CHOOSE m \in pm : TRUE
           IN  Cardinality(pm) = 1
                  => /\ \A r \in Rules : Successors(result, r) = {m[r]}
                     /\ pc = "extracted"
                          => matches = Some([r \in Rules |->
                                        IF caller = "find_rules_to_fields_map"
                                        THEN FieldIndex(m[r]) ELSE m[r]])

\* C13 witness: a caller has got its matching from a max_flow in which a
\* later path cancelled the edge from a left vertex to a right vertex.
C13_Witness ==
    /\ pc = "extracted"
    /\ Cardinality(PerfectMatchings(adjancency)) = 1
    /\ \E e \in Cancelled : e[1] \in Rules /\ e[2] \in Fields

\* C14: on every graph the caller can have built, add_edge(from, to) makes
\* from -> to an edge and changes no other edge, a second add_edge(from, to)
\* changes nothing, and the only entry it can create is the entry of from
\* (none for to, whether or not from and to had entries).
C14_AddEdgeIdempotent ==
    pc = "idle"
        => \A from, to \in nodes :
              LET once == add_edge(adjancency, from, to)
              IN  /\ HasEdge(once, from, to)
                  /\ Edges(once) = Edges(adjancency) \cup {<<from, to>>}
                  /\ add_edge(once, from, to) = once
                  /\ DOMAIN once = DOMAIN adjancency \cup {from}

\* C14 witness: the caller's graph is what one add_edge(from, to) made of
\* the new graph, where neither from nor to had an entry: it has the edge
\* and an entry for from only.
C14_Witness ==
    /\ pc = "idle"
    /\ \E from, to \in nodes :
          /\ from # to
          /\ adjancency = add_edge(New, from, to)
          /\ DOMAIN adjancency = {from}
          /\ Edges(adjancency) = {<<from, to>>}

C16_AddThenRemoveRestores ==
    pc = "idle"
        => \A from, to \in nodes :
              Edges(remove_edge(add_edge(adjancency, from, to), from, to))
                 = Edges(adjancency)

\* C16 amended: add_edge(from, to) followed by remove_edge(from, to) gives
\* the edges of g without from -> to: the same set of edges as g exactly
\* when from -> to was no edge of g, and one edge fewer when it was.
C16_AddThenRemoveDeletes ==
    pc = "idle"
        => \A from, to \in nodes :
              LET after == remove_edge(add_edge(adjancency, from, to), from, to)
              IN  /\ Edges(after) = Edges(adjancency) \ {<<from, to>>}
                  /\ Edges(after) = Edges(adjancency)
                        <=> ~HasEdge(adjancency, from, to)

\* C16 witness: the caller's graph has an edge from -> to, so that add_edge
\* (from, to) and then remove_edge(from, to) leave it an edge short.
C16_Witness ==
    /\ pc = "idle"
    /\ \E from, to \in nodes :
          /\ HasEdge(adjancency, from, to)
          /\ Edges(remove_edge(add_edge(adjancency, from, to), from, to))
                # Edges(adjancency)

C18_EmptyEntryEquivalent ==
    pc = "idle"
        => \A v \in EmptyEntries(adjancency) :
              /\ Eq(adjancency, WithoutEntry(adjancency, v))
              /\ SameResults(adjancency, WithoutEntry(adjancency, v))

\* C18 amended: such a graph and the graph without the entry have the same
\* edges, and dfs and (for start # end) max_flow return the same for both,
\* for all arguments; but the two do not compare equal with ==, which
\* compares the keys of the maps.  What a call of dfs or max_flow on the
\* caller's graph returned is one of the results compared.
C18_EmptyEntrySameResultsNotEqual ==
    /\ pc = "idle"
          => \A v \in EmptyEntries(adjancency) :
                /\ ~Eq(adjancency, WithoutEntry(adjancency, v))
                /\ Edges(adjancency) = Edges(WithoutEntry(adjancency, v))
                /\ SameResults(adjancency, WithoutEntry(adjancency, v))
    /\ DfsReturned => path \in DfsResults(adjancency, start, target)
    /\ (MaxFlowReturned /\ start # target)
          => result \in MaxFlowResults(adjancency, start, target)

\* C18 witness: dfs has returned from a search that went through a vertex
\* whose entry holds the empty set, left behind by remove_edge.
C18_Witness ==
    /\ DfsReturned
    /\ \E v \in EmptyEntries(adjancency) : v \in visited \ {start, target}

\* C19: when the compatibility relation of the layered graph has no perfect
\* matching, max_flow runs to its end and returns a graph in which some
\* left vertex has no successor; the failure is the panic of the caller's
\* extraction on that graph, and the caller returns no assignment.
C19_NoMatchingFailsInCaller ==
    (caller # "none" /\ pc \in {"returned", "extracted", "panicked"})
        => (PerfectMatchings(adjancency) = {}
              => /\ pc # "extracted"
                 /\ matches = None
                 /\ op = "max_flow"
                 /\ path = None
                 /\ result = FilterFlow(flow, adjancency)
                 /\ \E r \in Rules : Successors(result, r) = {})

\* C19 witness: a caller has panicked in its extraction on a returned flow
\* that matches some left vertices and has no entry for another.
C19_Witness ==
    /\ pc = "panicked"
    /\ PerfectMatchings(adjancency) = {}
    /\ Edges(result) # {}
    /\ \E r \in Rules : r \notin DOMAIN result

\* C20: after an augmentation, for every consecutive pair (u, v) of the
\* path that was found, the flow graph has u -> v and not v -> u and the
\* residual graph has v -> u and not u -> v; and the step of the
\* augmentation for a pair (u, v) changes no edge of the flow graph or of
\* the residual graph other than u -> v and v -> u.
C20_AugmentationUpdatesPathEdgesOnly ==
    /\ [](  (op = "max_flow" /\ pc = "mf_loop" /\ IsSome(path))
              => LET p == Unwrap(path)
                 IN  \A i \in 1..(Len(p) - 1) :
                        /\ HasEdge(flow, p[i], p[i + 1])
                        /\ ~HasEdge(flow, p[i + 1], p[i])
                        /\ HasEdge(graph, p[i + 1], p[i])
                        /\ ~HasEdge(graph, p[i], p[i + 1]))
    /\ [][(pc = "mf_body" /\ window + 1 < Len(Unwrap(path)))
            => LET u == Unwrap(path)[window + 1]
                   v == Unwrap(path)[window + 2]
                   pair == {<<u, v>>, <<v, u>>}
               IN  /\ Edges(flow') \ pair = Edges(flow) \ pair
                   /\ Edges(graph') \ pair = Edges(graph) \ pair]_vars

\* C20 witness: an augmentation has ended whose path went through a
\* reverse edge of the residual graph, which cancelled an edge of the flow.
C20_Witness ==
    /\ op = "max_flow" /\ pc = "mf_loop" /\ IsSome(path)
    /\ Len(Unwrap(path)) >= 4
    /\ \E i \in 1..(Len(Unwrap(path)) - 1) :
          ~HasEdge(adjancency, Unwrap(path)[i], Unwrap(path)[i + 1])

\* C21: for start # end, the number of iterations of the while loop of
\* max_flow is at most the number of edges of the input graph, and at most
\* the out-degree of start and the in-degree of end in it: between two
\* iterations the residual graph has lost one out-edge of start per
\* iteration, and no step of max_flow adds an out-edge of start or an
\* in-edge of end to the residual graph.
C21_AugmentationsBounded ==
    /\ [](  (op = "max_flow" /\ start # target)
              => /\ augmentations <= Cardinality(Edges(adjancency))
                 /\ augmentations <= OutDegree(adjancency, start)
                 /\ augmentations <= InDegree(adjancency, target)
                 /\ pc # "mf_body"
                       => OutDegree(graph, start) + augmentations
                             = OutDegree(adjancency, start))
    /\ [][(op = "max_flow" /\ start # target)
            => /\ Successors(graph', start) \subseteq Successors(graph, start)
               /\ \A u \in nodes :
                     HasEdge(graph', u, target) => HasEdge(graph, u, target)]_vars

\* C21 witness: max_flow has returned after as many iterations as end has
\* incoming edges, fewer than start has outgoing edges, one of them through
\* a reverse edge of the residual graph.
C21_Witness ==
    /\ MaxFlowReturned
    /\ start # target
    /\ augmentations >= 2
    /\ augmentations = InDegree(adjancency, target)
    /\ augmentations < OutDegree(adjancency, start)
    /\ Cancelled # {}

\* C22: when the input graph has no self-loop and no pair of opposite
\* edges, then between the augmentations of max_flow, for every edge u -> v
\* of the input graph, exactly one of u -> v and v -> u is in the residual
\* graph, and u -> v is in the flow graph exactly when v -> u is in the
\* residual graph: the residual graph is the input graph with the edges
\* that carry flow reversed.
C22_ResidualIsInputWithFlowReversed ==
    (BetweenAugmentations /\ NoOppositeEdges(adjancency))
        => /\ \A e \in Edges(adjancency) :
                 /\ HasEdge(graph, e[1], e[2]) <=> ~HasEdge(graph, e[2], e[1])
                 /\ HasEdge(flow, e[1], e[2]) <=> HasEdge(graph, e[2], e[1])
           /\ LET carrying == Edges(flow) \cap Edges(adjancency)
              IN  Edges(graph) = (Edges(adjancency) \ carrying)
                                    \cup {<<e[2], e[1]>> : e \in carrying}

\* C22 witness: max_flow is past an augmentation that cancelled an edge of
\* the flow, on an input graph without self-loops and opposite edges.
C22_Witness ==
    /\ BetweenAugmentations
    /\ NoOppositeEdges(adjancency)
    /\ augmentations >= 2
    /\ Cancelled # {}

\* C23: the value of the flow max_flow(start, end) returns does not depend
\* on the order in which the successors are enumerated: for start # end,
\* every graph max_flow can return for the same input, over all the
\* enumeration orders, has the out-degree of start that the returned graph
\* has.
C23_FlowValueOrderIndependent ==
    (MaxFlowReturned /\ start # target)
        => \A other \in MaxFlowResults(adjancency, start, target) :
              OutDegree(other, start) = OutDegree(result, start)

\* C24: at the start of every iteration of the dfs loop, the vertices of the
\* stack form a simple path of the searched graph that starts at start,
\* every vertex of the stack except possibly the top one is visited, and the
\* resume index of each frame is at most the number of successors of its
\* vertex; and the sequence returned when the top vertex is the target is
\* the stack's path at that iteration, ending in the target.
C24_StackIsSimplePath ==
    /\ [](pc = "dfs"
            => /\ stack # <<>> => stack[1][1] = start
               /\ \A j, k \in 1..Len(stack) :
                     j # k => stack[j][1] # stack[k][1]
               /\ \A k \in 1..(Len(stack) - 1) :
                     /\ HasEdge(Searched, stack[k][1], stack[k + 1][1])
                     /\ stack[k][1] \in visited
               /\ \A k \in 1..Len(stack) :
                     stack[k][2]
                        <= Cardinality(Successors(Searched, stack[k][1])))
    /\ [][(pc = "dfs" /\ stack # <<>> /\ Top[1] = target)
            => /\ path' = Some(PathOf(stack))
               /\ pc' # "dfs"]_vars
    /\ [][(pc = "dfs" /\ pc' # "dfs" /\ IsSome(path'))
            => /\ Unwrap(path') = PathOf(stack)
               /\ Top[1] = target]_vars

\* C24 witness: a loop iteration starts with three frames on the stack
\* after a backtrack, the top vertex unvisited and being the target, and a
\* lower frame whose resume index is the number of its successors.
C24_Witness ==
    /\ pc = "dfs"
    /\ Len(stack) >= 3
    /\ Top[1] \notin visited
    /\ Top[1] = target
    /\ abandoned # {}
    /\ \E k \in 1..(Len(stack) - 1) :
          /\ stack[k][2] = Cardinality(Successors(Searched, stack[k][1]))
          /\ stack[k][2] >= 2

\* C25: dfs terminates on every finite graph, with cycles and self-loops:
\* in one search each vertex is pushed as a new frame (resume index 0) at
\* most once, a frame whose vertex has no unvisited successor left is popped
\* and its vertex is never on the stack again, and a frame that is pushed
\* back for the search to go on has a strictly larger resume index than it
\* was popped with.  Every iteration that does not end the search pushes a
\* new frame or pops one for good, so that the search ends within twice as
\* many iterations as there are vertices.
C25_DfsTerminates ==
    /\ [](pc = "dfs"
            => /\ \A v \in DOMAIN pushes : pushes[v] <= 1
               /\ \A k \in 1..Len(stack) : stack[k][1] \notin abandoned
               /\ DOMAIN pushes \subseteq nodes /\ abandoned \subseteq nodes
               /\ DfsProgress <= 2 * Cardinality(nodes))
    /\ [][(pc = "dfs" /\ pc' = "dfs") => DfsProgress' = DfsProgress + 1]_vars
    /\ [][(pc = "dfs" /\ pc' = "dfs" /\ stack # <<>>)
            => /\ (Successors(Searched, Top[1]) \subseteq visited \cup {Top[1]})
                    => stack' = Popped /\ Top[1] \in abandoned'
               /\ Len(stack') > Len(stack)
                    => /\ stack' = Popped
                                    \o SubSeq(stack', Len(stack), Len(stack) + 1)
                       /\ stack'[Len(stack)][1] = Top[1]
                       /\ stack'[Len(stack)][2] > Top[2]
                       /\ stack'[Len(stack) + 1][1] \notin DOMAIN pushes
                       /\ stack'[Len(stack) + 1][2] = 0]_vars

\* C25 witness: a search that took a frame up again after a backtrack, on a
\* graph where a vertex has a self-loop and start lies on a cycle, has
\* returned without a path.
C25_Witness ==
    /\ DfsReturned
    /\ path = None
    /\ \E v \in nodes : HasEdge(adjancency, v, v)
    /\ \E v \in nodes \ {start} :
          HasEdge(adjancency, start, v) /\ Reachable(adjancency, v, start)
    /\ Cardinality(abandoned) >= 2

\* C26: for every compatibility relation between the left and the right
\* vertices of the layered graph a caller builds, the left-to-right edges
\* of the flow graph max_flow returns are a maximum-cardinality matching:
\* they are edges of the input, every left vertex has at most one flow
\* successor, every right vertex has at most one flow predecessor, and the
\* number of matched left vertices is the size of a maximum matching.
C26_FlowIsMaximumMatching ==
    (caller # "none" /\ pc \in {"returned", "extracted", "panicked"})
        => /\ LeftToRight(result) \in Matchings(adjancency)
           /\ \A r \in Rules : Cardinality(Successors(result, r)) <= 1
           /\ \A f \in Fields : InDegree(result, f) <= 1
           /\ Cardinality({r \in Rules : Successors(result, r) # {}})
                 = MaxMatchingSize(adjancency)

\* C26 witness: max_flow has returned to a caller a matching of two of the
\* three left vertices, where no perfect matching exists although every
\* left vertex has a compatible right vertex, after a path cancelled a
\* left-to-right edge of the flow.
C26_Witness ==
    /\ caller # "none" /\ pc = "returned"
    /\ MaxMatchingSize(adjancency) = 2
    /\ Cardinality(LeftToRight(result)) = 2
    /\ \A r \in Rules : \E f \in Fields : HasEdge(adjancency, r, f)
    /\ \E e \in Cancelled : e[1] \in Rules /\ e[2] \in Fields

C28_WindowTreeIsQueueSet ==
    /\ window_tree = Range(window_queue)
    /\ window_queue = LastOf(values, preamble_len)
    /\ IsSome(push_result)
         => Unwrap(push_result)
               = IF Len(Previous) < preamble_len THEN TRUE
                 ELSE SumOfTwo(LastOf(Previous, preamble_len),
                               values[Len(values)])

\* C29: advance_to_stable_state terminates for every rectangular grid, and
\* the state it leaves is a fixed point of advance.
C29_AdvanceToStableStateTerminates ==
    /\ []((op = "advance_to_stable_state" /\ pc = "returned")
            => Advanced(state) = state)
    /\ (op = "advance_to_stable_state") ~> (pc = "returned")

\* C30: for every program whose jumps lead into 0..=program.len(),
\* determine_halting_nodes returns exactly the instruction pointers from
\* which the unmodified execution reaches program.len(); and
\* execute_program_with_self_healing replaces at most one jmp or nop, takes
\* a replacement only of a jmp or nop and only when the instruction pointer
\* it leads to is in that set, changes the accumulator by the acc
\* instructions it executes only, and once a replacement is taken reaches
\* instruction_pointer = program.len() and returns with the accumulator of
\* that run.
C30_SelfHealingReachesEnd ==
    /\ [](pc \in {"executing", "returned", "panicked"}
            => /\ halting_nodes
                    = {ip \in 0..Len(program) : Halts(program, ip)}
               /\ replacements <= 1
               /\ replacements = 1 => instruction_pointer \in halting_nodes
               /\ pc = "returned" => instruction_pointer = Len(program))
    /\ [][(pc = "executing" /\ instruction_pointer < Len(program))
            => LET operation == At(program, instruction_pointer)
               IN  /\ accumulator'
                        = accumulator
                             + (IF operation[1] = "Acc" /\ pc' = "executing"
                                THEN operation[2] ELSE 0)
                   /\ replacements' # replacements
                        => /\ replacements = 0
                           /\ operation[1] \in {"Jmp", "Nop"}
                           /\ Halts(program, instruction_pointer')
                           /\ instruction_pointer'
                                = IF operation[1] = "Jmp"
                                  THEN instruction_pointer + 1
                                  ELSE instruction_pointer + operation[2]]_vars
    /\ [][pc = "returned" => accumulator' = accumulator]_vars
    /\ (replacements = 1) ~> (pc = "returned")

\* C30 witness: the run of a program that does not halt unmodified has
\* returned after it took a nop for a jmp, with acc instructions executed
\* before and after the replacement.
C30_Witness ==
    /\ pc = "returned"
    /\ op = "execute_program_with_self_healing"
    /\ replacements = 1
    /\ ~Halts(program, 0)
    /\ \E i \in 1..(Len(program) - 2) :
          /\ At(program, i)[1] = "Jmp"
          /\ ~Halts(program, i)
          /\ At(program, i - 1)[1] = "Acc"
          /\ At(program, i + 1)[1] = "Acc"
    /\ accumulator >= 3

====
